---- MODULE Spec2Model ----
(***************************************************************************)
(* ProtoDecoder of src/async_impl/proto_decoder.rs: the three caches       *)
(* (cache, error_cache, context_cache), the entry guards that              *)
(* entry_async holds across the registry fetches, and the concurrent       *)
(* decode / decode_with_context / remove_errors_from_cache calls.          *)
(*                                                                         *)
(* One action per await point: everything a call does between two awaits   *)
(* (pushing texts in add_files, compiling the context, resolving the name, *)
(* decoding, inserting into a cache, dropping an entry guard) is part of   *)
(* the action that resumes the call.                                       *)
(***************************************************************************)
EXTENDS Integers, Sequences, FiniteSets, TLC

VARIABLES
    cache,          \* ProtoDecoder.cache: id -> closure (Arc<Vec<String>>)
    error_cache,    \* ProtoDecoder.error_cache: id -> SRCError
    context_cache,  \* ProtoDecoder.context_cache: id -> Arc<DecodeContext>
    cacheLocked,    \* ids whose cache entry guard is held by a call
    ctxLocked,      \* ids whose context_cache entry guard is held by a call
    registry,       \* what the schema registry serves: doc -> RegisteredSchema
    pc,             \* per caller: the await point its current call is at
    op,             \* per caller: "decode" or "decode_with_context"
    input,          \* per caller: the Option<&[u8]> argument of the call
    stack,          \* per caller: the add_files frames of the build it drives
    files,          \* per caller: the Vec<String> add_files is filling
    result,         \* per caller: what the last call returned
    calls,          \* calls issued so far
    cleared,        \* whether remove_errors_from_cache was ever called
    fetchById,      \* id -> number of get_schema_by_id_and_type(id) calls
    fetchRef,       \* id -> number of get_referenced_schema calls made for id
    compiles,       \* id -> number of into_decode_context runs for id
    buildFailure,   \* id -> what the call whose build failed since the last clear
    everFailed,     \* ids for which some build has failed
    fetchedOk,      \* per caller: every registry call of its current/last call answered with a document
    waitedCache,    \* callers whose current/last call had to wait for the cache entry of its id
    waitedCtx       \* callers whose current/last call had to wait for the context_cache entry of its id

vars == <<cache, error_cache, context_cache, cacheLocked, ctxLocked, registry,
          pc, op, input, stack, files, result, calls, cleared,
          fetchById, fetchRef, compiles, buildFailure, everFailed,
          fetchedOk, waitedCache, waitedCtx>>

(***************************************************************************)
(* Bounds of the model.                                                    *)
(***************************************************************************)
NumCallers == 2
MaxCalls == 2
MaxRefs == 2      \* references per document, in the graphs of SpecClosure
MaxDepth == 4     \* nested add_files activations, in SpecCycle

Callers == 1 .. NumCallers
Ids == {1, 2}
Docs == {1, 2, 3}
Ops == {"decode", "decode_with_context"}

EmptyMap == [x \in {} |-> {}]
Put(m, k, v) == [x \in DOMAIN m \cup {k} |-> IF x = k THEN v ELSE m[x]]
Last(s) == s[Len(s)]
Range(s) == {s[i] : i \in DOMAIN s}

(***************************************************************************)
(* Values: Result, SRCError, protofish Value.                              *)
(***************************************************************************)
NoCause == "none"
Ok(v) == [kind |-> "Ok", value |-> v]
Err(e) == [kind |-> "Err", error |-> e]
NoResult == [kind |-> "pending"]
Panicked == [kind |-> "panic"]

SRCError(msg, cause, retriable) ==
    [error |-> msg, cause |-> cause, retriable |-> retriable, cached |-> FALSE]
non_retryable_with_cause(cause, msg) == SRCError(msg, cause, FALSE)
into_cache(e) == [e EXCEPT !.cached = TRUE]

ValueBytes(b) == [tag |-> "Bytes", bytes |-> b]
ValueMessage(m) == [tag |-> "Message", message |-> m]
None == [some |-> FALSE]
Some(v) == [some |-> TRUE, value |-> v]

(***************************************************************************)
(* The registry.  A document is served as a RegisteredSchema: its schema   *)
(* text and its references in declaration order.  A schema text is a       *)
(* token naming the file, whether it is well-formed protobuf, and how many *)
(* top-level messages it declares.                                         *)
(***************************************************************************)
SchemaText(d, wellformed, messages) ==
    [file |-> d, wellformed |-> wellformed, messages |-> messages]
RegisteredSchema(text, references) == [schema |-> text, references |-> references]

\* A fetch answers with the document or fails, retryably or not.
FetchOutcomes ==
    { [ok |-> TRUE],
      [ok |-> FALSE, error |-> SRCError("registry unavailable", "io", TRUE)],
      [ok |-> FALSE, error |-> SRCError("schema not found", NoCause, FALSE)] }

\* The documents served: root 1 -> 2 -> 3, and 2 is itself the root of id 2.
\* Document d declares d top-level messages; the text of document 1 is not
\* well-formed, so the closure of id 1 builds and does not compile.
ChainGraph == [d \in Docs |-> IF d = 1 THEN <<2>> ELSE IF d = 2 THEN <<3>> ELSE <<>>]

Malformed == {1}
RegistryOf(graph, malformed) ==
    [d \in Docs |-> RegisteredSchema(SchemaText(d, d \notin malformed, d), graph[d])]

(***************************************************************************)
(* Input framing: get_bytes_result.  Magic byte 0, then the identifier as  *)
(* four big-endian bytes, then the rest.                                   *)
(***************************************************************************)
NullInput == None
get_bytes_result(bytes) ==
    IF ~bytes.some THEN [tag |-> "Null"]
    ELSE LET p == bytes.value IN
         IF Len(p) > 4 /\ p[1] = 0
         THEN [tag |-> "Valid",
               id |-> ((p[2] * 256 + p[3]) * 256 + p[4]) * 256 + p[5],
               bytes |-> SubSeq(p, 6, Len(p))]
         ELSE [tag |-> "Invalid", bytes |-> p]

\* The payloads callers pass.
Inputs ==
    { NullInput,
      Some(<<1, 0, 0, 0, 1, 0, 8>>),      \* wrong magic byte
      Some(<<0, 0, 0, 0, 1, 0, 8>>),      \* id 1, index path [0], data [8]
      Some(<<0, 0, 0, 0, 2, 0, 8>>),      \* id 2, index path [0], data [8]
      Some(<<0, 0, 0, 0, 2, 1, 2, 9>>) }  \* id 2, index path [2], data [9]

(***************************************************************************)
(* Wire envelope: to_index_and_data.  A leading 0 is the path [0];         *)
(* otherwise a count followed by that many indexes.                        *)
(***************************************************************************)
to_index_and_data(bytes) ==
    IF bytes[1] = 0
    THEN [index |-> <<0>>, data |-> SubSeq(bytes, 2, Len(bytes))]
    ELSE LET n == bytes[1] IN
         [index |-> SubSeq(bytes, 2, n + 1),
          data |-> SubSeq(bytes, n + 2, Len(bytes))]

(***************************************************************************)
(* MessageResolver and resolve_name: the root text's top-level messages,   *)
(* indexed by position.                                                    *)
(***************************************************************************)
MessageResolver(text) == [file |-> text.file, messages |-> text.messages]
resolve_name(resolver, index) ==
    IF Len(index) = 1 /\ index[1] < resolver.messages
    THEN Ok(<<resolver.file, index[1]>>)
    ELSE Err(SRCError("Invalid index", NoCause, FALSE))

(***************************************************************************)
(* into_decode_context: resolver from the last text, the set of all texts  *)
(* plus the common files, compiled by Context::parse.                      *)
(***************************************************************************)
WellKnownFile == 0   \* file token of the built-in common definitions
CommonFiles == {SchemaText(WellKnownFile, TRUE, 1)}
Context_parse(fileSet) ==
    IF \A f \in fileSet : f.wellformed THEN Ok(fileSet) ELSE Err("parse error")
\* Mutant: the resolver is derived from the first text of the closure.
into_decode_context_first(vec_of_schemas) ==
    LET resolver == MessageResolver(Head(vec_of_schemas))
        fileSet == CommonFiles \cup Range(vec_of_schemas)
        parsed == Context_parse(fileSet)
    IN  IF parsed.kind = "Ok"
        THEN Ok([resolver |-> resolver, context |-> parsed.value])
        ELSE Err(non_retryable_with_cause(parsed.error, "Error creating proto context"))

into_decode_context(vec_of_schemas) ==
    LET resolver == MessageResolver(Last(vec_of_schemas))
        fileSet == CommonFiles \cup Range(vec_of_schemas)
        parsed == Context_parse(fileSet)
    IN  IF parsed.kind = "Ok"
        THEN Ok([resolver |-> resolver, context |-> parsed.value])
        ELSE Err(non_retryable_with_cause(parsed.error, "Error creating proto context"))

\* message_info.decode(&data, &context.context)
MessageDecode(full_name, data, context) ==
    [name |-> full_name, fields |-> data, pool |-> context]

(***************************************************************************)
(* The tail of deserialize (lines 70-74) once get_vec_of_schemas answered, *)
(* and of deserialize_with_context (lines 116-125) once context answered.  *)
(***************************************************************************)
\* Mutant: deserialize decodes the bytes with their index path still on.
deserialize_whole_payload(vec_result, bytes) ==
    IF vec_result.kind = "Err" THEN vec_result
    ELSE LET context == into_decode_context(vec_result.value) IN
         IF context.kind = "Err" THEN context
         ELSE LET split == to_index_and_data(bytes)
                  full_name == resolve_name(context.value.resolver, split.index)
              IN  IF full_name.kind = "Err" THEN full_name
                  ELSE Ok(MessageDecode(full_name.value, bytes,
                                        context.value.context))

deserialize(vec_result, bytes) ==
    IF vec_result.kind = "Err" THEN vec_result
    ELSE LET context == into_decode_context(vec_result.value) IN
         IF context.kind = "Err" THEN context
         ELSE LET split == to_index_and_data(bytes)
                  full_name == resolve_name(context.value.resolver, split.index)
              IN  IF full_name.kind = "Err" THEN full_name
                  ELSE Ok(MessageDecode(full_name.value, split.data,
                                        context.value.context))

deserialize_with_context(context_result, bytes) ==
    IF context_result.kind = "Err" THEN context_result
    ELSE LET context == context_result.value
             split == to_index_and_data(bytes)
             full_name == resolve_name(context.resolver, split.index)
         IN  IF full_name.kind = "Err" THEN full_name
             ELSE Ok([value |-> MessageDecode(full_name.value, split.data,
                                              context.context),
                      context |-> context,
                      full_name |-> full_name.value,
                      data_bytes |-> split.data])

\* decode's and decode_with_context's wrapping of the inner result.
DecodeReturn(r) == IF r.kind = "Ok" THEN Ok(ValueMessage(r.value)) ELSE r
DecodeWithContextReturn(r) == IF r.kind = "Ok" THEN Ok(Some(r.value)) ELSE r

(***************************************************************************)
(* add_files between two awaits: frames whose references are all resolved  *)
(* push their text and return; it stops at the next reference to fetch.    *)
(***************************************************************************)
Frame(rs) == [rs |-> rs, next |-> 1]

\* Mutant: a finished frame puts its text in front of the vector.
RECURSIVE add_files_prepend(_, _)
add_files_prepend(frames, vec) ==
    IF frames = <<>> THEN [stack |-> <<>>, files |-> vec]
    ELSE LET top == Last(frames) IN
         IF top.next > Len(top.rs.references)
         THEN add_files_prepend(SubSeq(frames, 1, Len(frames) - 1),
                                <<top.rs.schema>> \o vec)
         ELSE [stack |-> frames, files |-> vec]

RECURSIVE add_files(_, _)
add_files(frames, vec) ==
    IF frames = <<>> THEN [stack |-> <<>>, files |-> vec]
    ELSE LET top == Last(frames) IN
         IF top.next > Len(top.rs.references)
         THEN add_files(SubSeq(frames, 1, Len(frames) - 1),
                        Append(vec, top.rs.schema))
         ELSE [stack |-> frames, files |-> vec]

Framing(p) == get_bytes_result(input[p])
IdOf(p) == Framing(p).id

InitWith(reg) ==
    /\ cache = EmptyMap
    /\ error_cache = EmptyMap
    /\ context_cache = EmptyMap
    /\ cacheLocked = {}
    /\ ctxLocked = {}
    /\ registry = reg
    /\ pc = [p \in Callers |-> "idle"]
    /\ op = [p \in Callers |-> "decode"]
    /\ input = [p \in Callers |-> NullInput]
    /\ stack = [p \in Callers |-> <<>>]
    /\ files = [p \in Callers |-> <<>>]
    /\ result = [p \in Callers |-> NoResult]
    /\ calls = 0
    /\ cleared = FALSE
    /\ fetchById = [i \in Ids |-> 0]
    /\ fetchRef = [i \in Ids |-> 0]
    /\ compiles = [i \in Ids |-> 0]
    /\ buildFailure = EmptyMap
    /\ everFailed = {}
    /\ fetchedOk = [p \in Callers |-> FALSE]
    /\ waitedCache = {}
    /\ waitedCtx = {}

Init == InitWith(RegistryOf(ChainGraph, Malformed))

Bump(counter, id) == [counter EXCEPT ![id] = @ + 1]

(***************************************************************************)
(* entry_async(id).await suspends a call while another call holds the      *)
(* entry of id (lines 139 and 178).  After a step, the calls that are at    *)
(* an entry_async whose entry is held have had to wait; starters are the   *)
(* callers whose call begins in the step.                                  *)
(***************************************************************************)
Suspended(point, locked, old, starters) ==
    {q \in Callers :
        \/ q \in old /\ q \notin starters
        \/ pc'[q] = point /\ get_bytes_result(input'[q]).id \in locked}

Waits(starters) ==
    /\ waitedCache' = Suspended("get_vec_of_schemas", cacheLocked', waitedCache, starters)
    /\ waitedCtx' = Suspended("context", ctxLocked', waitedCtx, starters)

(***************************************************************************)
(* A call is issued: decode (lines 53-61) and decode_with_context (lines   *)
(* 89-100) classify the input; Null and Invalid return at once, Valid      *)
(* goes on to get_vec_of_schemas, respectively to context.                 *)
(***************************************************************************)
\* Mutant: decode answers invalid framing like null input.
DecodeUnframedEmpty(framing) == Ok(ValueBytes(<<>>))

\* Mutant: decode_with_context answers null input like invalid framing.
DecodeWithContextUnframedStrict(framing) ==
    Err(SRCError("no protobuf compatible bytes", NoCause, FALSE))

DecodeUnframed(framing) ==
    IF framing.tag = "Null" THEN Ok(ValueBytes(<<>>)) ELSE Ok(ValueBytes(framing.bytes))

DecodeWithContextUnframed(framing) ==
    IF framing.tag = "Null" THEN Ok(None)
    ELSE Err(SRCError("no protobuf compatible bytes", NoCause, FALSE))

Issue(p, o, bytes) ==
    /\ pc[p] \in {"idle", "done", "dropped"}
    /\ calls < MaxCalls
    /\ calls' = calls + 1
    /\ op' = [op EXCEPT ![p] = o]
    /\ input' = [input EXCEPT ![p] = bytes]
    /\ LET framing == get_bytes_result(bytes) IN
       IF framing.tag = "Valid"
       THEN /\ pc' = [pc EXCEPT ![p] =
                        IF o = "decode" THEN "get_vec_of_schemas" ELSE "context"]
            /\ result' = [result EXCEPT ![p] = NoResult]
       ELSE /\ pc' = [pc EXCEPT ![p] = "done"]
            /\ result' = [result EXCEPT ![p] =
                            IF o = "decode" THEN DecodeUnframed(framing)
                            ELSE DecodeWithContextUnframed(framing)]
    /\ fetchedOk' = [fetchedOk EXCEPT ![p] = FALSE]
    /\ UNCHANGED <<cache, error_cache, context_cache, cacheLocked, ctxLocked,
                   registry, stack, files, cleared, fetchById, fetchRef,
                   compiles, buildFailure, everFailed>>
    /\ Waits({p})

Decode(p) == \E bytes \in Inputs : Issue(p, "decode", bytes)
DecodeWithContext(p) == \E bytes \in Inputs : Issue(p, "decode_with_context", bytes)

(***************************************************************************)
(* get_vec_of_schemas has answered caller p with r (lines 140, 145, 158,   *)
(* 164).  In decode the rest of deserialize runs; in decode_with_context   *)
(* the rest of context runs (lines 182-185: the ? drops the vacant         *)
(* context entry, otherwise the compiled context is inserted) and then the *)
(* rest of deserialize_with_context.                                       *)
(***************************************************************************)
ContextInsert(map, id, context) == Put(map, id, context)

\* Mutant: a vacant entry is not kept while its value is built.
KeepEntryReleased(locked, id) == locked

\* Entry::Vacant(e) (lines 141, 180): the call keeps the entry of id.
KeepEntry(locked, id) == locked \cup {id}

\* Mutant: the entry of id stays held when the call is over.
DropEntryLeaked(locked, id) == locked

\* The entry of id goes out of scope (lines 158, 164-167, 182-187).
DropEntry(locked, id) == locked \ {id}

AfterGetVecOfSchemas(p, id, r) ==
    /\ pc' = [pc EXCEPT ![p] = "done"]
    /\ compiles' = IF r.kind = "Ok" THEN Bump(compiles, id) ELSE compiles
    /\ IF op[p] = "decode"
       THEN /\ result' = [result EXCEPT ![p] =
                            DecodeReturn(deserialize(r, Framing(p).bytes))]
            /\ UNCHANGED <<context_cache, ctxLocked>>
       ELSE LET context == IF r.kind = "Err" THEN r
                           ELSE into_decode_context(r.value)
            IN  /\ ctxLocked' = DropEntry(ctxLocked, id)
                /\ context_cache' = IF context.kind = "Ok"
                                    THEN ContextInsert(context_cache, id, context.value)
                                    ELSE context_cache
                /\ result' = [result EXCEPT ![p] = DecodeWithContextReturn(
                                deserialize_with_context(context, Framing(p).bytes))]

\* Mutant: entry_async hands out the entry of id while another call holds it.
EntryAlwaysAvailable(locked, id) == TRUE

\* entry_async(id).await resumes once no other call holds the entry of id.
EntryAvailable(locked, id) == id \notin locked

(***************************************************************************)
(* context, line 178: the context_cache entry for id.  Occupied: the       *)
(* cached context is used.  Vacant: the entry guard is kept while          *)
(* get_vec_of_schemas runs.                                                *)
(***************************************************************************)
ContextEntry(p) ==
    /\ pc[p] = "context"
    /\ LET id == IdOf(p) IN
       /\ EntryAvailable(ctxLocked, id)
       /\ IF id \in DOMAIN context_cache
          THEN /\ pc' = [pc EXCEPT ![p] = "done"]
               /\ result' = [result EXCEPT ![p] = DecodeWithContextReturn(
                     deserialize_with_context(Ok(context_cache[id]), Framing(p).bytes))]
               /\ UNCHANGED ctxLocked
          ELSE /\ pc' = [pc EXCEPT ![p] = "get_vec_of_schemas"]
               /\ ctxLocked' = KeepEntry(ctxLocked, id)
               /\ UNCHANGED result
    /\ UNCHANGED <<cache, error_cache, context_cache, cacheLocked, registry, op,
                   input, stack, files, calls, cleared, fetchById,
                   fetchRef, compiles, buildFailure, everFailed, fetchedOk>>
    /\ Waits({})

(***************************************************************************)
(* get_vec_of_schemas, lines 139-147: the cache entry for id.  Occupied:   *)
(* the closure.  Vacant with a cached error: that error.  Vacant           *)
(* otherwise: the entry guard is kept while the registry is asked.         *)
(***************************************************************************)
\* Mutant: the occupied cache entry is not used (line 140 missing).
CachedLookupWithoutClosure(id) ==
    IF id \in DOMAIN error_cache THEN Err(error_cache[id]) ELSE NoResult

\* Mutant: a vacant entry starts a build without looking for a cached
\* error (lines 143-146 missing).
CachedLookupWithoutError(id) ==
    IF id \in DOMAIN cache THEN Ok(cache[id]) ELSE NoResult

CachedLookup(id) ==
    IF id \in DOMAIN cache THEN Ok(cache[id])
    ELSE IF id \in DOMAIN error_cache THEN Err(error_cache[id])
    ELSE NoResult

GetVecOfSchemasEntry(p) ==
    /\ pc[p] = "get_vec_of_schemas"
    /\ LET id == IdOf(p)
           r == CachedLookup(id)
       IN /\ EntryAvailable(cacheLocked, id)
          /\ IF r.kind = "pending"
             THEN /\ pc' = [pc EXCEPT ![p] = "get_schema_by_id"]
                  /\ cacheLocked' = KeepEntry(cacheLocked, id)
                  /\ UNCHANGED <<context_cache, ctxLocked, result, compiles>>
             ELSE /\ AfterGetVecOfSchemas(p, id, r)
                  /\ UNCHANGED cacheLocked
    /\ UNCHANGED <<cache, error_cache, registry, op, input, stack, files,
                   calls, cleared, fetchById, fetchRef, buildFailure, everFailed,
                   fetchedOk>>
    /\ Waits({})

(***************************************************************************)
(* The build ends (lines 155-166).  Ok: the closure is inserted and the    *)
(* entry guard dropped.  Err: the error, marked cached, is inserted into   *)
(* error_cache (the unwrap panics if id already has one) and returned.     *)
(***************************************************************************)
\* Line 161: the error is marked cached once; line 163 stores a clone of it
\* and line 164 returns it.
\* Mutant: the error is stored as the registry produced it.
CachedErrorUnmarked(e) == e

CachedError(e) == into_cache(e)

\* Mutant: the failing call returns the error as the registry produced it.
ReturnedErrorUnmarked(e) == e

ReturnedError(e) == into_cache(e)

BuildOk(p, id, vec) ==
    /\ cache' = Put(cache, id, vec)
    /\ cacheLocked' = DropEntry(cacheLocked, id)
    /\ stack' = [stack EXCEPT ![p] = <<>>]
    /\ files' = [files EXCEPT ![p] = <<>>]
    /\ AfterGetVecOfSchemas(p, id, Ok(vec))
    /\ UNCHANGED <<error_cache, buildFailure, everFailed>>

\* Mutant: the texts gathered before the failing fetch are stored as the
\* closure of id.
BuildErrKeepsPartial(p, id, e) ==
    /\ cacheLocked' = DropEntry(cacheLocked, id)
    /\ stack' = [stack EXCEPT ![p] = <<>>]
    /\ files' = [files EXCEPT ![p] = <<>>]
    /\ cache' = IF files[p] = <<>> THEN cache ELSE Put(cache, id, files[p])
    /\ everFailed' = everFailed \cup {id}
    /\ error_cache' = Put(error_cache, id, CachedError(e))
    /\ AfterGetVecOfSchemas(p, id, Err(ReturnedError(e)))
    /\ buildFailure' = Put(buildFailure, id, result'[p])

BuildErr(p, id, e) ==
    /\ cacheLocked' = DropEntry(cacheLocked, id)
    /\ stack' = [stack EXCEPT ![p] = <<>>]
    /\ files' = [files EXCEPT ![p] = <<>>]
    /\ UNCHANGED cache
    /\ everFailed' = everFailed \cup {id}
    /\ IF id \in DOMAIN error_cache
       THEN /\ pc' = [pc EXCEPT ![p] = "done"]
            /\ result' = [result EXCEPT ![p] = Panicked]
            /\ ctxLocked' = DropEntry(ctxLocked, id)
            /\ UNCHANGED <<error_cache, context_cache, compiles, buildFailure>>
       ELSE /\ error_cache' = Put(error_cache, id, CachedError(e))
            /\ AfterGetVecOfSchemas(p, id, Err(ReturnedError(e)))
            /\ buildFailure' = Put(buildFailure, id, result'[p])

\* Mutant: the closure is compiled as part of its build, and a closure that
\* does not compile fails the build.
BuildStepCompiling(p, id, s) ==
    IF s.stack = <<>>
    THEN IF into_decode_context(s.files).kind = "Ok"
         THEN BuildOk(p, id, s.files)
         ELSE BuildErr(p, id, into_decode_context(s.files).error)
    ELSE /\ pc' = [pc EXCEPT ![p] = "get_referenced_schema"]
         /\ stack' = [stack EXCEPT ![p] = s.stack]
         /\ files' = [files EXCEPT ![p] = s.files]
         /\ UNCHANGED <<cache, error_cache, context_cache, cacheLocked, ctxLocked,
                        result, compiles, buildFailure, everFailed>>

BuildStep(p, id, s) ==
    IF s.stack = <<>>
    THEN BuildOk(p, id, s.files)
    ELSE /\ pc' = [pc EXCEPT ![p] = "get_referenced_schema"]
         /\ stack' = [stack EXCEPT ![p] = s.stack]
         /\ files' = [files EXCEPT ![p] = s.files]
         /\ UNCHANGED <<cache, error_cache, context_cache, cacheLocked, ctxLocked,
                        result, compiles, buildFailure, everFailed>>

(***************************************************************************)
(* Line 149: get_schema_by_id_and_type answers; on Ok to_vec_of_schemas    *)
(* starts add_files on the root with an empty vector (lines 242-243).      *)
(***************************************************************************)
GetSchemaById(p) ==
    /\ pc[p] = "get_schema_by_id"
    /\ LET id == IdOf(p) IN
       /\ fetchById' = Bump(fetchById, id)
       /\ \E answer \in FetchOutcomes :
            /\ fetchedOk' = [fetchedOk EXCEPT ![p] = answer.ok]
            /\ IF answer.ok
               THEN BuildStep(p, id, add_files(<<Frame(registry[id])>>, <<>>))
               ELSE BuildErr(p, id, answer.error)
    /\ UNCHANGED <<registry, op, input, calls, cleared, fetchRef>>
    /\ Waits({})

(***************************************************************************)
(* Line 206: get_referenced_schema answers for the next reference of the   *)
(* innermost frame; on Ok add_files recurses into the child (line 207).    *)
(***************************************************************************)
\* Mutant: a document that is already being resolved is not resolved again.
RecurseUnlessVisited(frames, child) ==
    IF \E i \in DOMAIN frames : frames[i].rs = child
    THEN frames
    ELSE Append(frames, Frame(child))

\* Line 207: add_files is called on the child, whatever is being resolved.
Recurse(frames, child) == Append(frames, Frame(child))

GetReferencedSchema(p) ==
    /\ pc[p] = "get_referenced_schema"
    /\ LET id == IdOf(p)
           n == Len(stack[p])
           top == stack[p][n]
           r == top.rs.references[top.next]
           advanced == [stack[p] EXCEPT ![n].next = @ + 1]
       IN /\ fetchRef' = Bump(fetchRef, id)
          /\ \E answer \in FetchOutcomes :
               /\ fetchedOk' = [fetchedOk EXCEPT ![p] = answer.ok]
               /\ IF answer.ok
                  THEN BuildStep(p, id, add_files(Recurse(advanced, registry[r]),
                                                  files[p]))
                  ELSE BuildErr(p, id, answer.error)
    /\ UNCHANGED <<registry, op, input, calls, cleared, fetchById>>
    /\ Waits({})

(***************************************************************************)
(* remove_errors_from_cache, lines 45-47.                                  *)
(***************************************************************************)
\* Mutant: clear leaves the map as it is.
ClearNothing(map) == map

\* Mutant: clear removes one entry only.
ClearOne(map) ==
    IF DOMAIN map = {} THEN map
    ELSE LET k == CHOOSE x \in DOMAIN map : \A y \in DOMAIN map : x <= y
         IN  [x \in DOMAIN map \ {k} |-> map[x]]

\* scc HashMap::clear
Clear(map) == EmptyMap

RemoveErrorsFromCache ==
    /\ error_cache' = Clear(error_cache)
    /\ cleared' = TRUE
    /\ buildFailure' = EmptyMap
    /\ UNCHANGED <<cache, context_cache, cacheLocked, ctxLocked, registry, pc, op,
                   input, stack, files, result, calls, fetchById,
                   fetchRef, compiles, everFailed, fetchedOk, waitedCache,
                   waitedCtx>>

Next ==
    \/ \E p \in Callers : Decode(p)
    \/ \E p \in Callers : DecodeWithContext(p)
    \/ \E p \in Callers : ContextEntry(p)
    \/ \E p \in Callers : GetVecOfSchemasEntry(p)
    \/ \E p \in Callers : GetSchemaById(p)
    \/ \E p \in Callers : GetReferencedSchema(p)
    \/ RemoveErrorsFromCache

Spec == Init /\ [][Next]_vars

(***************************************************************************)
(* A caller abandons its call: the future of decode or decode_with_context *)
(* is dropped at an await point, and with it the locals of the async fns   *)
(* it was running: a vacant cache entry (line 141) if the call was at a    *)
(* registry fetch, the vacant context_cache entry (line 180) if it was     *)
(* inside context.  Nothing is inserted.                                   *)
(***************************************************************************)
InFlight == {"context", "get_vec_of_schemas", "get_schema_by_id", "get_referenced_schema"}
HeldCache(p) ==
    IF pc[p] \in {"get_schema_by_id", "get_referenced_schema"} THEN {IdOf(p)} ELSE {}
HeldContext(p) ==
    IF op[p] = "decode_with_context" /\ pc[p] \in InFlight \ {"context"}
    THEN {IdOf(p)} ELSE {}

\* Mutant: the entries of a dropped call stay held.
FutureDroppedKeepsEntries(locked, held) == locked

FutureDropped(locked, held) == locked \ held

Abandon(p) ==
    /\ pc[p] \in InFlight
    /\ pc' = [pc EXCEPT ![p] = "dropped"]
    /\ cacheLocked' = FutureDropped(cacheLocked, HeldCache(p))
    /\ ctxLocked' = FutureDropped(ctxLocked, HeldContext(p))
    /\ stack' = [stack EXCEPT ![p] = <<>>]
    /\ files' = [files EXCEPT ![p] = <<>>]
    /\ UNCHANGED <<cache, error_cache, context_cache, registry, op, input, result,
                   calls, cleared, fetchById, fetchRef, compiles, buildFailure,
                   everFailed, fetchedOk>>
    /\ Waits({})

NextDrop ==
    \/ \E p \in Callers : Decode(p)
    \/ \E p \in Callers : DecodeWithContext(p)
    \/ \E p \in Callers : ContextEntry(p)
    \/ \E p \in Callers : GetVecOfSchemasEntry(p)
    \/ \E p \in Callers : GetSchemaById(p)
    \/ \E p \in Callers : GetReferencedSchema(p)
    \/ \E p \in Callers : Abandon(p)

\* The executor keeps polling while some call can make progress, and every
\* registry call answers; nothing makes a caller issue or abandon a call.
Poll ==
    \E p \in Callers :
        \/ ContextEntry(p)
        \/ GetVecOfSchemasEntry(p)
        \/ GetSchemaById(p)
        \/ GetReferencedSchema(p)

SpecDrop == Init /\ [][NextDrop]_vars /\ WF_vars(Poll)

\* The calls and clears of Spec, under the same scheduling.
SpecFair == Spec /\ WF_vars(Poll)

(***************************************************************************)
(* The closure build alone, over every reference graph within the bounds:  *)
(* one caller decodes payloads of id 1 against a registry whose documents  *)
(* each reference up to MaxRefs documents.  The documents are numbered in  *)
(* a topological order (a document references higher-numbered documents    *)
(* only), which every acyclic graph admits with the root first.            *)
(***************************************************************************)
RefSeqs == UNION {[1 .. n -> Docs] : n \in 0 .. MaxRefs}
AcyclicGraphs ==
    {g \in [Docs -> RefSeqs] : \A d \in Docs : \A i \in DOMAIN g[d] : g[d][i] > d}

ClosureCaller == CHOOSE p \in Callers : \A q \in Callers : p <= q
ClosureInput == Some(<<0, 0, 0, 0, 1, 0, 8>>)

InitClosure == \E g \in AcyclicGraphs : InitWith(RegistryOf(g, {}))
NextClosure ==
    \/ Issue(ClosureCaller, "decode", ClosureInput)
    \/ Issue(ClosureCaller, "decode_with_context", ClosureInput)
    \/ ContextEntry(ClosureCaller)
    \/ GetVecOfSchemasEntry(ClosureCaller)
    \/ GetSchemaById(ClosureCaller)
    \/ GetReferencedSchema(ClosureCaller)
SpecClosure == InitClosure /\ [][NextClosure]_vars

(***************************************************************************)
(* Reference graphs with a cycle reachable from the root of id 1: the      *)
(* root references itself; root -> 2 -> root; root -> 2 -> 3 -> 2; and     *)
(* root -> (3, 2), 2 -> root, where the text of 3 is gathered before the   *)
(* cycle is entered.  The nesting of add_files is unbounded on them; the   *)
(* model follows it to MaxDepth activations.                               *)
(***************************************************************************)
CyclicGraphs ==
    { [d \in Docs |-> IF d = 1 THEN <<1>> ELSE <<>>],
      [d \in Docs |-> IF d = 1 THEN <<2>> ELSE IF d = 2 THEN <<1>> ELSE <<>>],
      [d \in Docs |-> IF d = 1 THEN <<2>> ELSE IF d = 2 THEN <<3>> ELSE <<2>>],
      [d \in Docs |-> IF d = 1 THEN <<3, 2>> ELSE IF d = 2 THEN <<1>> ELSE <<>>] }

InitCycle == \E g \in CyclicGraphs : InitWith(RegistryOf(g, {}))

GetReferencedSchemaNested(p) ==
    /\ Len(stack[p]) < MaxDepth
    /\ GetReferencedSchema(p)

NextCycle ==
    \/ \E p \in Callers : Issue(p, "decode", ClosureInput)
    \/ \E p \in Callers : Issue(p, "decode_with_context", ClosureInput)
    \/ \E p \in Callers : ContextEntry(p)
    \/ \E p \in Callers : GetVecOfSchemasEntry(p)
    \/ \E p \in Callers : GetSchemaById(p)
    \/ \E p \in Callers : GetReferencedSchemaNested(p)

SpecCycle == InitCycle /\ [][NextCycle]_vars

(***************************************************************************)
(* Properties.                                                             *)
(***************************************************************************)
ValidCall(p, id) == Framing(p).tag = "Valid" /\ IdOf(p) = id
Returned(p, id) == pc[p] = "done" /\ ValidCall(p, id)

\* C1: as long as remove_errors_from_cache has not been invoked, calls of
\* decode and decode_with_context carrying an id that started absent from
\* all caches invoke get_schema_by_id for it exactly once in total: never
\* more than once, and once as soon as one of the calls has returned,
\* whether the fetch succeeded or failed.
C1_FetchedExactlyOnce ==
    ~cleared =>
        \A id \in Ids :
            /\ fetchById[id] <= 1
            /\ (\E p \in Callers : Returned(p, id)) => fetchById[id] = 1

\* Two calls for id 1, one through each operation, have returned the error
\* of the one failed fetch.
C1_Witness ==
    /\ ~cleared
    /\ fetchById[1] = 1
    /\ 1 \in DOMAIN buildFailure
    /\ \E p, q \in Callers :
         /\ Returned(p, 1) /\ op[p] = "decode"
         /\ Returned(q, 1) /\ op[q] = "decode_with_context"
         /\ result[p] = buildFailure[1] /\ result[q] = buildFailure[1]

\* C2: for an id whose closure is cached and compiles, into_decode_context
\* has run exactly once for it, however many decode and
\* decode_with_context calls carried it.
C2_CompiledExactlyOnce ==
    \A id \in DOMAIN cache :
        into_decode_context(cache[id]).kind = "Ok" => compiles[id] = 1

\* C3: once the closure of id is in the success cache, no step makes a
\* get_schema_by_id or get_referenced_schema call on behalf of id.
C3_NoRegistryCallOnceCached ==
    [][\A id \in Ids :
          id \in DOMAIN cache =>
              /\ fetchById'[id] = fetchById[id]
              /\ fetchRef'[id] = fetchRef[id]]_vars

\* After a clear, two calls for id 2 have returned a message; one of them
\* built the closure with the only fetch, the other was served from the cache.
C3_Witness ==
    /\ cleared
    /\ 2 \in DOMAIN cache
    /\ fetchById[2] = 1
    /\ \E p, q \in Callers :
         /\ Returned(p, 2) /\ fetchedOk[p] /\ result[p].kind = "Ok"
         /\ Returned(q, 2) /\ ~fetchedOk[q] /\ result[q].kind = "Ok"

\* C4: while the failure of a closure build for id has not been cleared,
\* every call that looks id up in get_vec_of_schemas returns at that step,
\* with exactly what the call whose build failed returned (same
\* retryability, cause and cached marker), and no registry call is made.
C4_CachedErrorReplayed ==
    [][\A p \in Callers :
          (/\ pc[p] = "get_vec_of_schemas"
           /\ pc'[p] # pc[p]
           /\ IdOf(p) \in DOMAIN buildFailure)
          => /\ pc'[p] = "done"
             /\ result'[p] = buildFailure[IdOf(p)]
             /\ fetchById' = fetchById
             /\ fetchRef' = fetchRef]_vars

\* Both callers returned the error of the one failed build of id 2: one
\* drove the build, the other was served from error_cache.
C4_Witness ==
    /\ ~cleared
    /\ 2 \in DOMAIN buildFailure
    /\ fetchById[2] = 1
    /\ \A p \in Callers : Returned(p, 2) /\ result[p] = buildFailure[2]
    /\ \E p \in Callers : op[p] = "decode_with_context"

\* What the closure and the payload of a call decide once the closure is there.
Compiles(closure) == \A i \in DOMAIN closure : closure[i].wellformed
Resolves(closure, payload) ==
    LET index == to_index_and_data(payload).index
    IN  Len(index) = 1 /\ index[1] < Last(closure).messages

\* A decode call for an id whose build failed before has returned after a
\* clear, every registry call it made having answered with a document.
RetriedOk(p) ==
    /\ pc[p] = "done"
    /\ op[p] = "decode"
    /\ Framing(p).tag = "Valid"
    /\ IdOf(p) \in everFailed
    /\ cleared
    /\ fetchedOk[p]

\* After a clear, the decode call that looks up an id whose build failed
\* (and was not rebuilt since) goes to the registry.
RetryContactsRegistry ==
    \A p \in Callers :
        (/\ op[p] = "decode"
         /\ pc[p] = "get_vec_of_schemas"
         /\ pc'[p] # pc[p]
         /\ IdOf(p) \in everFailed
         /\ IdOf(p) \notin DOMAIN buildFailure
         /\ IdOf(p) \notin DOMAIN cache)
        => pc'[p] = "get_schema_by_id"

\* C5 as stated: after remove_errors_from_cache the next decode call for an
\* id whose build had failed contacts the registry again, and if the
\* registry answers successfully it returns the decoded message and the
\* closure is in the success cache.
C5_RetryReturnsMessage ==
    /\ [][RetryContactsRegistry]_vars
    /\ [](\A p \in Callers :
            RetriedOk(p) =>
                /\ IdOf(p) \in DOMAIN cache
                /\ result[p].kind = "Ok"
                /\ result[p].value.tag = "Message")

\* C5 amended: the retry contacts the registry and, the registry answering
\* successfully, the closure is in the success cache; the call returns the
\* decoded message when that closure compiles and the payload's index path
\* resolves, and otherwise a non-retryable error that is not marked cached.
C5_RetryStoresClosure ==
    /\ [][RetryContactsRegistry]_vars
    /\ [](\A p \in Callers :
            RetriedOk(p) =>
                /\ IdOf(p) \in DOMAIN cache
                /\ IF /\ Compiles(cache[IdOf(p)])
                      /\ Resolves(cache[IdOf(p)], Framing(p).bytes)
                   THEN /\ result[p].kind = "Ok"
                        /\ result[p].value.tag = "Message"
                   ELSE /\ result[p].kind = "Err"
                        /\ ~result[p].error.cached
                        /\ ~result[p].error.retriable)

\* The build of id 2 failed, the errors were cleared, and a decode call
\* fetched id 2 again and returned the message.
C5_Witness ==
    \E p \in Callers :
        /\ RetriedOk(p)
        /\ IdOf(p) = 2
        /\ result[p].kind = "Ok"
        /\ result[p].value.tag = "Message"
        /\ 2 \in DOMAIN cache

\* A step of remove_errors_from_cache: the first one, or one that removes
\* entries of error_cache.
ClearStep ==
    \/ cleared' # cleared
    \/ /\ DOMAIN error_cache' # DOMAIN error_cache
       /\ DOMAIN error_cache' \subseteq DOMAIN error_cache

\* C6: remove_errors_from_cache removes the error entry of every id at once
\* and leaves the closure cache and the context cache as they were.
C6_ClearRemovesErrorsOnly ==
    [][ClearStep =>
          /\ error_cache' = EmptyMap
          /\ cache' = cache
          /\ context_cache' = context_cache]_vars

\* After a clear: the error of id 1 is gone, the closure and the context
\* of id 2 are still cached.
C6_Witness ==
    /\ cleared
    /\ 1 \in everFailed
    /\ error_cache = EmptyMap
    /\ 2 \in DOMAIN cache
    /\ 2 \in DOMAIN context_cache

\* A step in which a call is issued.
IssueStep == calls' # calls
CachesUntouched ==
    /\ cache' = cache
    /\ error_cache' = error_cache
    /\ context_cache' = context_cache
    /\ fetchById' = fetchById
    /\ fetchRef' = fetchRef

\* C7: a call whose input the framing classifier reports Invalid returns in
\* the step that issues it: decode with Ok(Bytes(the input bytes)),
\* decode_with_context with a non-retryable error; that step makes no
\* registry call and changes none of the three caches.
C7_InvalidFraming ==
    /\ [](\A p \in Callers :
            Framing(p).tag = "Invalid" =>
                /\ pc[p] = "done"
                /\ op[p] = "decode" => result[p] = Ok(ValueBytes(input[p].value))
                /\ op[p] = "decode_with_context" =>
                       /\ result[p].kind = "Err"
                       /\ ~result[p].error.retriable
                       /\ ~result[p].error.cached)
    /\ [][(\E p \in Callers : get_bytes_result(input'[p]).tag = "Invalid" /\ IssueStep)
            => CachesUntouched]_vars

\* Both operations have returned for invalidly framed input.
C7_Witness ==
    \E p, q \in Callers :
        /\ pc[p] = "done" /\ Framing(p).tag = "Invalid" /\ op[p] = "decode"
        /\ result[p].kind = "Ok" /\ result[p].value.bytes = <<1, 0, 0, 0, 1, 0, 8>>
        /\ pc[q] = "done" /\ Framing(q).tag = "Invalid" /\ op[q] = "decode_with_context"
        /\ result[q].kind = "Err"

\* C8: a call with null input returns in the step that issues it: decode
\* with Ok(Bytes(empty)), decode_with_context with Ok(None), whatever the
\* caches hold; that step makes no registry call and changes no cache.
C8_NullInput ==
    /\ [](\A p \in Callers :
            (Framing(p).tag = "Null" /\ pc[p] # "idle") =>
                /\ pc[p] = "done"
                /\ op[p] = "decode" => result[p] = Ok(ValueBytes(<<>>))
                /\ op[p] = "decode_with_context" => result[p] = Ok(None))
    /\ [][(\E p \in Callers : get_bytes_result(input'[p]).tag = "Null" /\ pc'[p] # "idle"
                               /\ IssueStep)
            => CachesUntouched]_vars

\* decode_with_context has returned None for null input while an error is
\* cached.
C8_Witness ==
    /\ error_cache # EmptyMap
    /\ \E p \in Callers :
         /\ pc[p] = "done" /\ Framing(p).tag = "Null"
         /\ op[p] = "decode_with_context" /\ result[p] = Ok(None)

\* The documents a document references, directly or through others.
RECURSIVE Referenced(_)
Referenced(d) ==
    UNION {{r} \cup Referenced(r) : r \in Range(registry[d].references)}

\* The closure as section 4.2 words it: the sub-closure of each reference,
\* in declaration order, then the document's own text.
RECURSIVE SubClosures(_, _)
SubClosures(d, i) ==
    IF i > Len(registry[d].references) THEN <<registry[d].schema>>
    ELSE SubClosures(registry[d].references[i], 1) \o SubClosures(d, i + 1)

ChainClosure == <<SchemaText(3, TRUE, 3), SchemaText(2, TRUE, 2), SchemaText(1, TRUE, 1)>>

\* C9: in an acyclic graph whose fetches all succeeded, the cached closure
\* of the root ends with the root's text, holds before every text the texts
\* of all documents that document references directly or transitively,
\* visits references in declaration order, and for root -> 2 -> 3 is
\* exactly [text of 3, text of 2, text of the root].
C9_ClosureOrder ==
    \A id \in DOMAIN cache :
        LET c == cache[id] IN
        /\ Last(c) = registry[id].schema
        /\ \A k \in DOMAIN c :
              \A r \in Referenced(c[k].file) :
                  \E j \in 1 .. (k - 1) : c[j] = registry[r].schema
        /\ c = SubClosures(id, 1)
        /\ registry = RegistryOf(ChainGraph, {}) => c = ChainClosure

\* The closure of the chain root -> 2 -> 3 has been built with two
\* reference fetches.
C9_Witness ==
    /\ registry = RegistryOf(ChainGraph, {})
    /\ 1 \in DOMAIN cache
    /\ Len(cache[1]) = 3
    /\ fetchRef[1] = 2

\* The bytes of a payload after its index path.
AfterIndexPath(bytes, data) ==
    /\ Len(data) < Len(bytes)
    /\ data = SubSeq(bytes, Len(bytes) - Len(data) + 1, Len(bytes))
    /\ Len(bytes) - Len(data) = (IF bytes[1] = 0 THEN 1 ELSE bytes[1] + 1)

SamePayload(p, q) ==
    /\ pc[p] = "done" /\ op[p] = "decode"
    /\ pc[q] = "done" /\ op[q] = "decode_with_context"
    /\ input[p] = input[q]
    /\ Framing(p).tag = "Valid"

\* C10: a decode call and a decode_with_context call given the same validly
\* framed payload, with no remove_errors_from_cache in between, agree:
\* both return an error or neither, and when they succeed decode returns
\* Message(v) and decode_with_context Some(result) with result.value = v,
\* the context shared through context_cache, the resolved name and the
\* payload bytes that follow the index path.  (A clear lets the later call
\* go to the registry again, which may answer differently; every state of
\* the caches a clear leads to is also reached without one.)
C10_DecodeAgrees ==
    ~cleared =>
        \A p, q \in Callers :
            SamePayload(p, q) =>
                /\ result[p].kind \in {"Ok", "Err"}
                /\ result[q].kind = result[p].kind
                /\ result[p].kind = "Ok" =>
                     LET with == result[q].value.value IN
                     /\ result[p].value.tag = "Message"
                     /\ result[q].value.some
                     /\ with.value = result[p].value.message
                     /\ with.context = context_cache[IdOf(q)]
                     /\ with.full_name = with.value.name
                     /\ AfterIndexPath(Framing(q).bytes, with.data_bytes)

\* Both operations have decoded the same payload of id 2.
C10_Witness ==
    /\ ~cleared
    /\ \E p, q \in Callers :
         /\ SamePayload(p, q)
         /\ IdOf(p) = 2
         /\ result[p].kind = "Ok"
         /\ result[q].kind = "Ok"

\* Errors that a closure build produces: the registry's.
ClosureBuildErrors == {o.error.error : o \in {x \in FetchOutcomes : ~x.ok}}

\* C11 as stated: the error of a failed closure build is returned with
\* cached = false by the call whose build failed, and with cached = true
\* by the calls served from the error cache.
C11_FreshThenCached ==
    /\ \A id \in DOMAIN buildFailure : ~buildFailure[id].error.cached
    /\ \A id \in DOMAIN error_cache : error_cache[id].cached

\* C11 amended: the call whose closure build failed returns the very error
\* it stores in the error cache, cached = true, and so does every later
\* call served from the error cache; a returned error carries cached =
\* true exactly when it is a closure-build error.
C11_MarkedCachedFromFirstCall ==
    /\ \A id \in DOMAIN buildFailure :
          /\ buildFailure[id].kind = "Err"
          /\ buildFailure[id].error.cached
          /\ id \in DOMAIN error_cache
          /\ buildFailure[id].error = error_cache[id]
    /\ \A p \in Callers :
          (pc[p] = "done" /\ result[p].kind = "Err") =>
              (result[p].error.cached <=> result[p].error.error \in ClosureBuildErrors)

\* The only call issued so far has returned the error of its own failed
\* build of id 2, marked cached.
C11_Witness ==
    /\ calls = 1
    /\ fetchById[2] = 1
    /\ \E p \in Callers :
         /\ Returned(p, 2)
         /\ result[p].kind = "Err"
         /\ result[p].error.cached
         /\ result[p] = buildFailure[2]

\* The calls that are building the closure of id, and the
\* decode_with_context calls that are building its context.
ClosureBuilders(id) ==
    {p \in Callers : /\ pc[p] \in {"get_schema_by_id", "get_referenced_schema"}
                     /\ IdOf(p) = id}
ContextBuilders(id) ==
    {p \in Callers : /\ op[p] = "decode_with_context"
                     /\ pc[p] \in {"get_vec_of_schemas", "get_schema_by_id",
                                    "get_referenced_schema"}
                     /\ IdOf(p) = id}

\* C12: for every id, at most one call is building the closure of id and
\* at most one decode_with_context call is building the context of id.
C12_SingleFlight ==
    \A id \in Ids :
        /\ Cardinality(ClosureBuilders(id)) <= 1
        /\ Cardinality(ContextBuilders(id)) <= 1

\* A decode_with_context call is building the context of id 2 and waits
\* for the closure of id 2, which a decode call is building.
C12_Witness ==
    \E p, q \in Callers :
        /\ ClosureBuilders(2) = {p} /\ op[p] = "decode"
        /\ ContextBuilders(2) = {q} /\ pc[q] = "get_vec_of_schemas"
        /\ q \in waitedCache

\* Caller p takes a step of its call.
Steps(p) == pc'[p] # pc[p]
NoBuilderRun(id) ==
    /\ fetchById'[id] = fetchById[id]
    /\ fetchRef'[id] = fetchRef[id]
    /\ compiles'[id] = compiles[id]

\* C13: with no remove_errors_from_cache invoked, a call that had to wait
\* at the cache entry of id makes no registry call for id and returns what
\* the build it waited for produced (the stored failure, or a result
\* computed from the stored closure); a call that had to wait at the
\* context_cache entry of id neither makes a registry call nor runs
\* into_decode_context for id in any of its later steps.
C13_WaiterObservesBuild ==
    [][~cleared' =>
         \A p \in Callers :
             /\ (p \in waitedCache /\ pc[p] = "get_vec_of_schemas" /\ Steps(p)) =>
                    /\ pc'[p] = "done"
                    /\ fetchById' = fetchById /\ fetchRef' = fetchRef
                    /\ IdOf(p) \in DOMAIN cache \cup DOMAIN buildFailure
                    /\ IdOf(p) \in DOMAIN buildFailure => result'[p] = buildFailure[IdOf(p)]
             /\ (p \in waitedCtx /\ Steps(p)) => NoBuilderRun(IdOf(p))]_vars

\* C14: when calls may be abandoned at any await point, every call that is
\* not itself abandoned eventually returns: a call waiting for an entry
\* whose holder is dropped gets the entry and a result.
C14_WaitersReturn ==
    \A q \in Callers : (pc[q] \in InFlight) ~> (pc[q] \in {"done", "dropped"})

\* The call that was building id 2 has been abandoned; the call that had
\* to wait for it at the cache entry has then fetched id 2 itself and
\* returned the message.
C14_Witness ==
    \E p, q \in Callers :
        /\ calls = 2
        /\ pc[p] = "dropped" /\ IdOf(p) = 2
        /\ q \in waitedCache /\ Returned(q, 2)
        /\ fetchedOk[q] /\ result[q].kind = "Ok"
        /\ fetchById[2] = 2

\* Errors of context construction and of name resolution.
ContextErrors == {"Error creating proto context", "Invalid index"}

\* C15: an entry is added to the error cache only by the step in which a
\* closure build fails on a registry call, and then for the id of that
\* build.  A call that returns a context-construction or name-resolution
\* error for id leaves the error cache as it was, without an entry for id,
\* the closure of id being cached; a call that finds such a closure cached
\* makes no registry call and computes the error again (compiling again
\* when the closure does not compile), not marked cached.
C15_OnlyClosureFailuresCached ==
    [][/\ \A id \in DOMAIN error_cache' \ DOMAIN error_cache :
             \E p \in ClosureBuilders(id) :
                 /\ pc'[p] = "done"
                 /\ ~fetchedOk'[p]
                 /\ id \notin DOMAIN cache'
       /\ \A p \in Callers :
             (/\ pc[p] \in InFlight /\ pc'[p] = "done"
              /\ result'[p].kind = "Err"
              /\ result'[p].error.error \in ContextErrors)
             => /\ error_cache' = error_cache
                /\ IdOf(p) \notin DOMAIN error_cache'
                /\ IdOf(p) \in DOMAIN cache'
       /\ \A p \in Callers :
             (/\ pc[p] \in InFlight /\ pc'[p] = "done"
              /\ IdOf(p) \in DOMAIN cache
              /\ \/ ~Compiles(cache[IdOf(p)])
                 \/ ~Resolves(cache[IdOf(p)], Framing(p).bytes))
             => /\ result'[p].kind = "Err"
                /\ result'[p].error.error \in ContextErrors
                /\ ~result'[p].error.cached
                /\ fetchById' = fetchById /\ fetchRef' = fetchRef
                /\ ~Compiles(cache[IdOf(p)]) =>
                       compiles'[IdOf(p)] = compiles[IdOf(p)] + 1]_vars

\* Two calls for id 1, whose closure does not compile, have returned the
\* compilation error: one fetch, two compilations, no cached error.
C15_Witness ==
    /\ fetchById[1] = 1
    /\ compiles[1] = 2
    /\ 1 \in DOMAIN cache
    /\ error_cache = EmptyMap
    /\ ~cleared
    /\ \A p \in Callers :
          /\ Returned(p, 1)
          /\ result[p].kind = "Err"
          /\ result[p].error.error = "Error creating proto context"

\* C16: no id has an entry in both the closure cache and the error cache.
C16_SuccessAndErrorExclusive ==
    \A id \in Ids : ~(id \in DOMAIN cache /\ id \in DOMAIN error_cache)

\* The build of id 2 failed once and, after a clear, succeeded: id 2 is in
\* the closure cache and its error is gone.
C16_Witness ==
    /\ 2 \in everFailed
    /\ cleared
    /\ 2 \in DOMAIN cache
    /\ 2 \notin DOMAIN error_cache

\* C17: the step in which a registry call of the closure build for id
\* fails ends the build: the error is stored in the error cache under id
\* and under no other key, the closure cache and the context cache stay
\* as they were and hold no entry for id, and the texts gathered so far
\* are dropped.
C17_FailedFetchFailsBuild ==
    [][\A id \in Ids : \A p \in ClosureBuilders(id) :
          (pc'[p] = "done" /\ ~fetchedOk'[p]) =>
              /\ DOMAIN error_cache' = DOMAIN error_cache \cup {id}
              /\ \A k \in DOMAIN error_cache : error_cache'[k] = error_cache[k]
              /\ result'[p] = Err(error_cache'[id])
              /\ cache' = cache /\ id \notin DOMAIN cache'
              /\ context_cache' = context_cache /\ id \notin DOMAIN context_cache'
              /\ files'[p] = <<>> /\ stack'[p] = <<>>]_vars

\* A decode_with_context call for id 1 fetched the root and its first
\* reference, failed on the next fetch and left nothing but the error.
C17_Witness ==
    /\ Len(registry[1].references) = 2
    /\ fetchById[1] = 1
    /\ fetchRef[1] = 2
    /\ DOMAIN error_cache = {1}
    /\ cache = EmptyMap
    /\ context_cache = EmptyMap
    /\ \E p \in Callers :
          /\ Returned(p, 1) /\ op[p] = "decode_with_context"
          /\ result[p] = Err(error_cache[1])
          /\ files[p] = <<>>

\* A step in which the registry answers the build of caller p with a document.
FetchAnswered(p) ==
    /\ pc[p] \in {"get_schema_by_id", "get_referenced_schema"}
    /\ (fetchById' # fetchById \/ fetchRef' # fetchRef)
    /\ fetchedOk'[p]

\* C18: on a reference graph with a cycle reachable from the root of id 1,
\* a build whose fetches succeed never completes: after every answered
\* fetch another get_referenced_schema call is pending and no cache has
\* changed; no closure and no context of id 1 is ever stored; and a call
\* for id 1 returns only when a fetch failed, with that cached failure.
C18_CycleNeverCompletes ==
    /\ [](/\ 1 \notin DOMAIN cache
          /\ 1 \notin DOMAIN context_cache
          /\ \A p \in Callers :
                Returned(p, 1) =>
                    /\ 1 \in everFailed
                    /\ result[p].kind = "Err"
                    /\ result[p].error.error \in ClosureBuildErrors)
    /\ [][\A p \in Callers :
             FetchAnswered(p) =>
                 /\ pc'[p] = "get_referenced_schema"
                 /\ stack'[p] # <<>>
                 /\ cache' = cache
                 /\ error_cache' = error_cache
                 /\ context_cache' = context_cache]_vars

\* The build of id 1 is MaxDepth activations deep, resolving a document it
\* is already resolving, with nothing stored and the other call suspended
\* at the cache entry.
C18_Witness ==
    \E p, q \in Callers :
        /\ pc[p] = "get_referenced_schema"
        /\ Len(stack[p]) = MaxDepth
        /\ \E i, j \in DOMAIN stack[p] : i < j /\ stack[p][i].rs = stack[p][j].rs
        /\ pc[q] = "get_vec_of_schemas" /\ q \in waitedCache
        /\ cache = EmptyMap /\ error_cache = EmptyMap /\ everFailed = {}

\* C19: an id with a cached context has a cached closure and no cached
\* error, and its cached context is the one of that closure: the resolver
\* of the closure's last text (the root) and the pool of all its texts
\* and the common files.
C19_ContextFromCachedClosure ==
    \A id \in DOMAIN context_cache :
        /\ id \in DOMAIN cache
        /\ id \notin DOMAIN error_cache
        /\ context_cache[id].resolver =
               [file |-> Last(cache[id]).file, messages |-> Last(cache[id]).messages]
        /\ context_cache[id].context = CommonFiles \cup Range(cache[id])

\* The build of id 2 failed, the errors were cleared, and a
\* decode_with_context call then built the closure and the context of id 2.
C19_Witness ==
    /\ 2 \in everFailed
    /\ cleared
    /\ 2 \in DOMAIN context_cache
    /\ Len(cache[2]) = 2

\* C20: on the acyclic registry, with every registry call answering and
\* the executor polling, every decode and decode_with_context call that is
\* at an await point eventually returns, whatever other calls and clears
\* are interleaved with it.
C20_EveryCallReturns ==
    \A p \in Callers : (pc[p] \in InFlight) ~> (pc[p] = "done")

\* A decode_with_context call that held the context_cache entry of id 2
\* while it waited for the cache entry of id 2, held by a decode call
\* across its fetches, has returned, and so has the decode call.
C20_Witness ==
    \E p, q \in Callers :
        /\ Returned(p, 2) /\ op[p] = "decode_with_context" /\ p \in waitedCache
        /\ Returned(q, 2) /\ op[q] = "decode" /\ fetchedOk[q]
        /\ result[p].kind = "Ok" /\ result[q].kind = "Ok"

\* C21: while a call is building the closure of id, up to the step in
\* which it stores the error of that build, the error cache holds no entry
\* for id; no call ends in the panic of the unwrap on line 163.
C21_ErrorInsertNeverPanics ==
    /\ \A id \in Ids : ClosureBuilders(id) # {} => id \notin DOMAIN error_cache
    /\ \A p \in Callers : result[p] # Panicked

\* An error has been stored for id 2 twice, the second time by a build
\* started after a clear, and both calls returned it.
C21_Witness ==
    /\ cleared
    /\ fetchById[2] = 2
    /\ 2 \in DOMAIN error_cache
    /\ 2 \in DOMAIN buildFailure
    /\ \A p \in Callers : Returned(p, 2) /\ result[p].kind = "Err"

====
